---- MODULE Spec2Model ----
(***************************************************************************)
(* State-machine model of the liquid_calc refinement front end             *)
(* (gui/optim_ui.py: OptimUI and its widgets) together with the numerical  *)
(* core it drives.                                                         *)
(*                                                                         *)
(* Conventions                                                             *)
(*  - A QLineEdit text is a sequence: <<>> is an empty / non-numeric text, *)
(*    <<v>> a text that parses to the number v, <<0, 0>> a non-empty text  *)
(*    that does not parse (a validator's intermediate state such as "-").  *)
(*  - Floating point quantities (Q, intensity, density, r_min) are scaled  *)
(*    to small integers; one density unit is the optimizer's finite        *)
(*    difference step.                                                     *)
(*  - core.core is not part of the sources.  Its functions are modelled    *)
(*    from the specification as uninterpreted terms: a record naming the   *)
(*    function and the explicit inputs it was applied to.                  *)
(*  - Widgets whose edits trigger no handler of OptimUI are read at the    *)
(*    click: their current contents are the handler's inputs.              *)
(***************************************************************************)
EXTENDS Integers, Sequences, FiniteSets, TLC

VARIABLES
    data,      \* OptimUI.data
    widgets,   \* the widgets whose signals are connected in create_signals
    loaded,    \* base_filename has been set (a data file is loaded)
    log,       \* the blocks appended to refinement.log
    emitted,   \* number of results_changed emissions
    calls,     \* core calls made by the handler that ran last
    last,      \* what the handler that ran last did
    pc,        \* "idle", or "minimize" inside scipy.optimize.minimize
    frame,     \* locals of on_click_refine while minimize runs
    opt        \* state of the L-BFGS-B run

vars == <<data, widgets, loaded, log, emitted, calls, last, pc, frame, opt>>

-----------------------------------------------------------------------------
(* Bounds of the model *)

MaxRho == 1         \* densities typed into density_input: 0..MaxRho
MaxBound == 2       \* optimizer bounds typed into lb_input / ub_input: 1..MaxBound
MaxNIter == 2       \* iteration counts typed into niter_input: 0..MaxNIter
MaxLog == 2         \* blocks in refinement.log: a session ends when it is reached
MaxEvals == 6       \* objective evaluations explored from the start of a run
BudgetWindow == 4   \* evaluations explored before the evaluation cap
MaxSmooth == 2      \* successive smoothing passes explored
maxls == 2          \* line-search evaluations per iteration (scipy default 20)

-----------------------------------------------------------------------------
(* Texts and small helpers *)

Blank == <<>>
Partial == <<0, 0>>
Num(v) == <<v>>
IsNumber(t) == Len(t) = 1
NonEmptyText(t) == Len(t) > 0
None == <<>>

Max(a, b) == IF a >= b THEN a ELSE b
Min(a, b) == IF a <= b THEN a ELSE b

RECURSIVE TakeFrom(_, _, _)
\* y[I] for an index set I, in increasing index order (numpy fancy indexing
\* with the result of np.where)
TakeFrom(y, I, i) ==
    IF i > Len(y) THEN <<>>
    ELSE (IF i \in I THEN <<y[i]>> ELSE <<>>) \o TakeFrom(y, I, i + 1)

Take(y, I) == TakeFrom(y, I, 1)

\* the last True position instead of the first
ArgMaxLast(I) == IF I = {} THEN 1 ELSE CHOOSE i \in I : \A j \in I : i >= j

\* np.argmax of a boolean array given as the set of its True positions:
\* the first True position, or the first position when none is True
ArgMax(I) == IF I = {} THEN 1 ELSE CHOOSE i \in I : \A j \in I : i <= j

Repeat(v, n) == [i \in 1..n |-> v]

-----------------------------------------------------------------------------
(* core.core, modelled from the specification.  Each function is a term    *)
(* over its explicit inputs: equal inputs give equal results, and nothing  *)
(* else is assumed about the numbers.                                      *)

EmptyArr == [f |-> "empty"]       \* np.asarray([]) held under a derived key
Size(a) == IF a = EmptyArr THEN 0 ELSE 1
One == [f |-> "one"]              \* the scalar 1 of data['modification']

Methods == {"ashcroft-langreth", "faber-ziman"}
DefaultMethod == "ashcroft-langreth"        \* method argument left to the core's default
ModFuncs == {"None", "Lorch", "Cosine-window"}

calc_structure_factor(q, I, comp, rho, method) ==
    [f |-> "S(Q)", q |-> q, I |-> I, comp |-> comp, rho |-> rho, method |-> method]

calc_S_inf(comp, q, method) ==
    [f |-> "S_inf", comp |-> comp, q |-> q, method |-> method]

\* i(Q) = S(Q) - S_inf
Interference(sq, s_inf) == [f |-> "sub", a |-> sq, b |-> s_inf]

\* window_start is read in mode 'Cosine-window' only
get_mod_func(q, mod_func, window_start) ==
    [f |-> "M(Q)", q |-> q, mod_func |-> mod_func,
     window_start |-> IF mod_func = "Cosine-window" THEN window_start ELSE None]

calc_F_r(q, iq, rho, mod_func, window_start) ==
    [f |-> "F(r)", q |-> q, iq |-> iq, rho |-> rho,
     M |-> get_mod_func(q, mod_func, window_start)]

FrX(F) == [f |-> "r", of |-> F]
FrY(F) == [f |-> "F", of |-> F]

conv_density(rho, comp) == [f |-> "mass_density", rho |-> rho, comp |-> comp]

(* The values of the modification function M(Q).  A damping value is an    *)
(* integer in 0..Unit standing for 0..1; Q values are integers.  The sine  *)
(* and cosine are Bhaskara's rational approximations, rounded down.        *)

Unit == 100

RECURSIVE SeqMax(_)
SeqMax(q) == IF Len(q) = 0 THEN 0 ELSE Max(Head(q), SeqMax(Tail(q)))

\* a provider that answers 'None' with the scalar 1
NoModValuesScalar(q) == <<Unit>>

\* 'None': no damping
NoModValues(q) == [i \in 1..Len(q) |-> Unit]

\* 'Lorch': sin(x) / x with x = pi Q / Qmax
LorchValue(Q, Qmax) ==
    IF Q <= 0 THEN Unit
    ELSE Min(Unit, (Unit * 112 * (Qmax - Q) * Qmax)
                      \div (22 * (5 * Qmax * Qmax - 4 * Q * (Qmax - Q))))

\* (1 + cos(pi t / T)) / 2 for 0 <= t <= T, T > 0
HalfCosine(t, T) ==
    IF 2 * t <= T
    THEN (Unit * (2 * T * T - 3 * t * t)) \div (2 * (T * T + t * t))
    ELSE (Unit * 5 * (T - t) * (T - t)) \div (2 * (T * T + (T - t) * (T - t)))

\* a taper over the whole Q range, whatever the window start
CosineWindowValueNoStart(Q, Qmax, window_start) ==
    IF Qmax <= 0 THEN Unit ELSE HalfCosine(Max(Q, 0), Qmax)

\* 'Cosine-window': 1 below window_start, a half-cosine taper to 0 between
\* window_start and Qmax; with window_start >= Qmax nothing is damped
CosineWindowValue(Q, Qmax, window_start) ==
    IF Q < window_start \/ window_start >= Qmax THEN Unit
    ELSE HalfCosine(Q - window_start, Qmax - window_start)

\* the damping sequence get_mod_func returns, aligned with q
ModificationValues(q, mod_func, window_start) ==
    CASE mod_func = "None" -> NoModValues(q)
      [] mod_func = "Lorch" -> [i \in 1..Len(q) |-> LorchValue(q[i], SeqMax(q))]
      [] mod_func = "Cosine-window" ->
            [i \in 1..Len(q) |-> CosineWindowValue(q[i], SeqMax(q), window_start[1])]

(* The Eggert refiner: initialize, iterate n_iter times, finalize. *)

\* 1. Initialize: S(Q) and i(Q) = S(Q) - S_inf from the input curve
EggertInitialize(rho, q, curve, comp, r_min, method, mod_func, window_start) ==
    [f |-> "eggert",
     i0 |-> Interference(calc_structure_factor(q, curve, comp, rho, method),
                         calc_S_inf(comp, q, method)),
     q |-> q, rho |-> rho, r_min |-> r_min,
     M |-> get_mod_func(q, mod_func, window_start),
     iters |-> 0]

\* 2a-2d. one correction: transform to g(r), measure the violation below
\* r_min, back-transform it, subtract it from i(Q)
EggertCorrect(iq) == [iq EXCEPT !.iters = @ + 1]

\* 3. Finalize: chi-squared of the residual violation of the current i(Q)
EggertChiSq(iq) == [f |-> "chi_sq", of |-> iq]

RECURSIVE EggertIterateEarly(_, _)
\* a loop that also stops once a correction has been made (a convergence exit)
EggertIterateEarly(iq, n) ==
    IF n <= 0 \/ iq.iters >= 1 THEN iq
    ELSE EggertIterateEarly(EggertCorrect(iq), n - 1)

RECURSIVE EggertIterateAtLeastOnce(_, _)
\* a loop that tests its count after the correction (do .. while)
EggertIterateAtLeastOnce(iq, n) ==
    IF n <= 1 THEN EggertCorrect(iq)
    ELSE EggertIterateAtLeastOnce(EggertCorrect(iq), n - 1)

RECURSIVE EggertIterate(_, _)
\* 2. the loop: exactly n more corrections, no convergence test
EggertIterate(iq, n) ==
    IF n <= 0 THEN iq ELSE EggertIterate(EggertCorrect(iq), n - 1)

\* calc_impr_interference_func(rho, *args) with
\* args = (q, curve, composition, r_min, d_pq, n_iter, method, mod_func,
\*         window_start, chi-squared-only flag)
calc_impr_interference_func(rho, args) ==
    LET iq == EggertIterate(
                  EggertInitialize(rho, args.q, args.curve, args.comp, args.r_min,
                                   args.method, args.mod_func, args.window_start),
                  args.n_iter)
    IN  [iq |-> iq, chi_sq |-> EggertChiSq(iq), flag |-> args.flag]

-----------------------------------------------------------------------------
(* CompositionGroupBox *)

\* A row of composition_table is <<Z, charge, n>>.  The element symbol is in
\* one-to-one correspondence with Z (_element_dict), so Z is the dict key.
RECURSIVE SumN(_, _)
SumN(rows, keys) ==
    IF keys = {} THEN 0
    ELSE LET k == CHOOSE z \in keys : TRUE
             i == CHOOSE j \in 1..Len(rows) :
                      rows[j][1] = k /\ \A m \in (j + 1)..Len(rows) : rows[m][1] # k
         IN  rows[i][3] + SumN(rows, keys \ {k})

\* n / n_total raises ZeroDivisionError when the n of the entries sum to 0
CompositionRaises(rows) ==
    LET keys == {rows[j][1] : j \in 1..Len(rows)}
    IN  keys # {} /\ SumN(rows, keys) = 0

RECURSIVE SumRows(_)
SumRows(rows) == IF Len(rows) = 0 THEN 0 ELSE Head(rows)[3] + SumRows(Tail(rows))

\* a dictionary whose n_total is summed over the rows of the table
get_composition_dict_row_total(rows) ==
    LET keys == {rows[j][1] : j \in 1..Len(rows)}
        lastrow(k) == rows[CHOOSE j \in 1..Len(rows) :
                              rows[j][1] = k /\ \A m \in (j + 1)..Len(rows) : rows[m][1] # k]
    IN  [k \in keys |-> <<lastrow(k)[1], lastrow(k)[2], <<lastrow(k)[3], SumRows(rows)>>>>]

\* The dictionary {key: (Z, charge, n / n_total)}, a function on the keys;
\* a later row with the same element replaces an earlier one (dict.update).
\* The proportion n / n_total is kept as the pair <<n, n_total>>.
get_composition_dict(rows) ==
    LET keys == {rows[j][1] : j \in 1..Len(rows)}
        n_total == SumN(rows, keys)
        lastrow(k) == rows[CHOOSE j \in 1..Len(rows) :
                              rows[j][1] = k /\ \A m \in (j + 1)..Len(rows) : rows[m][1] # k]
    IN  [k \in keys |-> <<lastrow(k)[1], lastrow(k)[2], <<lastrow(k)[3], n_total>>>>]

EmptyComposition == [k \in {} |-> <<>>]

\* Contents of the composition table at a click
Tables == { <<>>, << <<31, 0, 1>> >> }

-----------------------------------------------------------------------------
(* OptimUI.data *)

\* an intensity array: its values and the smoothing passes applied to them
Array(y) == [y |-> y, sg |-> <<>>]

InitData ==
    [cor_x |-> <<>>, cor_y |-> <<>>,
     cor_x_cut |-> <<>>, cor_y_cut |-> Array(<<>>),
     iq_x |-> <<>>, impr_iq_x |-> <<>>,
     sq_y |-> EmptyArr, fr_x |-> EmptyArr, fr_y |-> EmptyArr,
     int_func |-> EmptyArr, impr_int_func |-> EmptyArr,
     impr_fr_x |-> EmptyArr, impr_fr_y |-> EmptyArr,
     mod_func |-> "None", window_start |-> None,
     modification |-> One,
     chi_sq |-> <<>>,        \* <<>>: key absent
     refined_rho |-> <<>>]   \* <<>>: key absent

InitWidgets ==
    [qmax_check |-> FALSE, qmax_input |-> Blank,
     qmin_check |-> FALSE, qmin_input |-> Blank,
     smooth_data_check |-> FALSE,
     window_length_input |-> Num(5), poly_order_input |-> Num(3)]

\* data_manip.smooth_data: a Savitzky-Golay pass with the given parameters;
\* savgol_filter keeps the length and rejects an even, non-positive or too
\* long window and a negative order (ValueError)
SavgolAccepts(a, window_length, poly_order) ==
    /\ window_length > 0 /\ window_length % 2 = 1
    /\ window_length <= Len(a.y)
    /\ poly_order >= 0 /\ poly_order < window_length

smooth_data(a, window_length, poly_order) ==
    [a EXCEPT !.sg = Append(@, <<window_length, poly_order>>)]

\* smooth_check_toggled with the check box checked (lines 355-373):
\* the data it leaves behind
SmoothChecked(d, w) ==
    IF Len(d.cor_y_cut.y) = 0 THEN d
    ELSE IF ~IsNumber(w.window_length_input) \/ ~IsNumber(w.poly_order_input) THEN d
    ELSE IF w.poly_order_input[1] >= w.window_length_input[1] THEN d
    ELSE IF ~SavgolAccepts(d.cor_y_cut, w.window_length_input[1], w.poly_order_input[1])
         THEN d
    ELSE [d EXCEPT !.cor_y_cut = smooth_data(@, w.window_length_input[1],
                                              w.poly_order_input[1])]

\* a clearing that leaves the refined curves in place
ClearDerivedKeepRefined(d) ==
    [d EXCEPT !.iq_x = <<>>,
              !.sq_y = EmptyArr, !.fr_x = EmptyArr, !.fr_y = EmptyArr,
              !.int_func = EmptyArr,
              !.cor_x_cut = <<>>, !.cor_y_cut = Array(<<>>)]

\* Lines 113-124: the derived data and the cut curve are emptied
ClearDerived(d) ==
    [d EXCEPT !.iq_x = <<>>, !.impr_iq_x = <<>>,
              !.sq_y = EmptyArr, !.fr_x = EmptyArr, !.fr_y = EmptyArr,
              !.int_func = EmptyArr, !.impr_int_func = EmptyArr,
              !.impr_fr_x = EmptyArr, !.impr_fr_y = EmptyArr,
              !.cor_x_cut = <<>>, !.cor_y_cut = Array(<<>>)]

\* plot_data (lines 110-167): the data it leaves behind, also when np.float
\* raises on a cutoff text that is not a number
plot_data(d, w) ==
    LET cleared == ClearDerived(d)
        qmax_cut == w.qmax_check /\ NonEmptyText(w.qmax_input)
        qmin_cut == w.qmin_check /\ NonEmptyText(w.qmin_input)
        below == {i \in 1..Len(d.cor_x) : d.cor_x[i] < w.qmax_input[1]}
        x_cut == IF qmax_cut THEN Take(d.cor_x, below) ELSE d.cor_x
        y_max == IF qmax_cut THEN Take(d.cor_y, below) ELSE d.cor_y
        after_qmax == [cleared EXCEPT !.cor_x_cut = x_cut, !.cor_y_cut = Array(y_max)]
        above == {i \in 1..Len(x_cut) : x_cut[i] > w.qmin_input[1]}
        fill_val == d.cor_y[ArgMax(above)]
        kept == Take(d.cor_y, above)
        y_min == Repeat(fill_val, Len(x_cut) - Len(kept)) \o kept
        after_qmin == IF qmin_cut /\ Len(x_cut) > 0
                      THEN [after_qmax EXCEPT !.cor_y_cut = Array(y_min)]
                      ELSE after_qmax
        cut == [after_qmin EXCEPT !.modification = One]
    IN  IF qmax_cut /\ ~IsNumber(w.qmax_input) THEN cleared
        ELSE IF qmin_cut /\ ~IsNumber(w.qmin_input) THEN after_qmax
        ELSE IF w.smooth_data_check THEN SmoothChecked(cut, w)
        ELSE cut

\* smooth_check_toggled (lines 353-382)
smooth_check_toggled(d, w) ==
    IF w.smooth_data_check THEN SmoothChecked(d, w) ELSE plot_data(d, w)

-----------------------------------------------------------------------------
(* Records of the calls into the core *)

\* rho and comp are <<>> when the function takes no such argument, else <<v>>
Grid(q) == [q |-> q]
NoRest == [f |-> "-"]

Call(fn, rho, comp, curve, mod_func, window_start, rest) ==
    [fn |-> fn, rho |-> rho, comp |-> comp, curve |-> curve,
     mod_func |-> mod_func, window_start |-> window_start, rest |-> rest]

\* The argument tuple handed to calc_impr_interference_func after the density
EggertArgs(q, curve, comp, r_min, dpq, n_iter, method, mod_func, window_start, flag) ==
    [q |-> q, curve |-> curve, comp |-> comp, r_min |-> r_min, d_pq |-> dpq,
     n_iter |-> n_iter, method |-> method, mod_func |-> mod_func,
     window_start |-> window_start, flag |-> flag]

\* One call of the refiner, with the number of corrections it performed
EggertCall(rho, args) ==
    Call("calc_impr_interference_func", Num(rho), <<args.comp>>, args.curve,
         args.mod_func, args.window_start,
         [args |-> args,
          iterations |-> calc_impr_interference_func(rho, args).iq.iters])

\* Lines 359-373: the call of data_manip.smooth_data that smooth_check_toggled
\* makes with the box checked, on the curve d.cor_y_cut it finds (none after
\* one of its early returns)
SmoothCalls(d, w) ==
    IF Len(d.cor_y_cut.y) = 0 THEN {}
    ELSE IF ~IsNumber(w.window_length_input) \/ ~IsNumber(w.poly_order_input) THEN {}
    ELSE IF w.poly_order_input[1] >= w.window_length_input[1] THEN {}
    ELSE { Call("smooth_data", None, <<>>, d.cor_y_cut, "-", None,
                [window_length |-> w.window_length_input[1],
                 poly_order |-> w.poly_order_input[1]]) }

\* Lines 164-165: plot_data ends in smooth_check_toggled when the box is
\* checked, unless np.float raised on a cutoff text before
PlotCalls(d, w) ==
    IF ~w.smooth_data_check THEN {}
    ELSE IF w.qmax_check /\ NonEmptyText(w.qmax_input) /\ ~IsNumber(w.qmax_input) THEN {}
    ELSE IF w.qmin_check /\ NonEmptyText(w.qmin_input) /\ ~IsNumber(w.qmin_input) THEN {}
    ELSE SmoothCalls(plot_data(d, [w EXCEPT !.smooth_data_check = FALSE]), w)

-----------------------------------------------------------------------------
(* OptimUI.on_click_calc_sq (lines 170-210) *)

\* What the user has entered when Calc S(Q) is clicked.  A field the handler
\* does not get to read is left at one representative value.
FilledTable == << <<31, 0, 1>> >>
MixedTable == << <<31, 0, 1>>, <<33, 0, 1>> >>
NumTexts(lo, hi) == {Num(v) : v \in lo..hi}

ModInputs ==
    [mod_func : {"None", "Lorch"}, window_start_input : {Blank}]
    \cup [mod_func : {"Cosine-window"}, window_start_input : {Num(1)}]

CalcInput(table, mod, method, density) ==
    [table |-> table, mod_func |-> mod.mod_func,
     window_start_input |-> mod.window_start_input,
     method |-> method, density_input |-> density]

CalcInputs ==
    \* no composition entered
    { CalcInput(<<>>, [mod_func |-> "None", window_start_input |-> Blank],
                "ashcroft-langreth", Num(1)) }
    \* Cosine-window without a window start
    \cup { CalcInput(FilledTable,
                     [mod_func |-> "Cosine-window", window_start_input |-> Blank],
                     "ashcroft-langreth", Num(1)) }
    \* everything up to the density is readable
    \cup { CalcInput(FilledTable, mod, method, density) :
              mod \in ModInputs, method \in Methods,
              density \in {Blank} \cup NumTexts(0, MaxRho) }
    \* two elements
    \cup { CalcInput(MixedTable, [mod_func |-> "None", window_start_input |-> Blank],
                     method, Num(1)) : method \in Methods }

Outcome(d, c, how) == [d |-> d, calls |-> c, how |-> how]

\* a handler that goes on after the ValueError
WindowStartMissingIgnored(mod_func, text) == FALSE

\* Lines 185-190 and 225-230: with 'Cosine-window' selected, np.float of the
\* window-start text raises ValueError and the handler returns
WindowStartMissing(mod_func, text) ==
    mod_func = "Cosine-window" /\ ~IsNumber(text)

on_click_calc_sq(d, in) ==
    LET comp == get_composition_dict(in.table)
        d1 == [d EXCEPT !.impr_iq_x = <<>>, !.impr_fr_x = EmptyArr,
                        !.impr_fr_y = EmptyArr, !.impr_int_func = EmptyArr,
                        !.mod_func = in.mod_func]
        d2 == [d1 EXCEPT !.window_start =
                   IF in.mod_func = "Cosine-window" THEN in.window_start_input ELSE None]
        rho_0 == in.density_input[1]
        sq == calc_structure_factor(d.cor_x_cut, d.cor_y_cut, comp, rho_0, in.method)
        S_inf == calc_S_inf(comp, d.cor_x_cut, DefaultMethod)
        int_func == Interference(sq, S_inf)
        F == calc_F_r(d.cor_x_cut, int_func, rho_0, d2.mod_func, d2.window_start)
        d3 == [d2 EXCEPT !.iq_x = d.cor_x_cut, !.sq_y = sq, !.int_func = int_func,
                         !.fr_x = FrX(F), !.fr_y = FrY(F),
                         !.modification =
                             get_mod_func(d.cor_x_cut, d2.mod_func, d2.window_start)]
        made == { Call("calc_structure_factor", Num(rho_0), <<comp>>, d.cor_y_cut,
                       "-", None, [method |-> in.method]),
                  Call("calc_S_inf", None, <<comp>>, Grid(d.cor_x_cut),
                       "-", None, [method |-> DefaultMethod]),
                  Call("calc_F_r", Num(rho_0), <<>>, int_func,
                       d2.mod_func, d2.window_start, NoRest),
                  Call("get_mod_func", None, <<>>, Grid(d.cor_x_cut),
                       d2.mod_func, d2.window_start, NoRest) }
    IN  IF Len(d.cor_x_cut) = 0 THEN Outcome(d, {}, "no data")
        ELSE IF CompositionRaises(in.table) THEN Outcome(d, {}, "raise")
        ELSE IF DOMAIN comp = {} THEN Outcome(d, {}, "no composition")
        ELSE IF WindowStartMissing(in.mod_func, in.window_start_input)
             THEN Outcome(d1, {}, "no window start")
        ELSE IF ~IsNumber(in.density_input) THEN Outcome(d2, {}, "raise")
        ELSE Outcome(d3, made, "done")

-----------------------------------------------------------------------------
(* ResultsUI.plot_data (results_ui.py lines 63-77) *)

\* int_func + S_inf: adding back the very S_inf that was subtracted gives
\* S(Q) again; any other sum is a different curve
Add(iq, s_inf) ==
    IF iq.f = "sub" /\ iq.b = s_inf THEN iq.a
    ELSE [f |-> "add", a |-> iq, b |-> s_inf]

\* Lines 66-67: S(Q) re-derived from the interference function with the
\* S_inf of sq_method
ResultsSq(int_func, composition, sq_x, sq_method) ==
    Add(int_func, calc_S_inf(composition, sq_x, sq_method))

-----------------------------------------------------------------------------
(* scipy.optimize.minimize(method='L-BFGS-B') as OptimUI calls it: one free  *)
(* variable, box bounds, no analytic gradient.                               *)

\* the options with a tenfold maxfun
minimisation_options_maxfun_x10 ==
    [disp |-> 0, maxiter |-> 15000, maxfun |-> 150000,
     ftol |-> "2.22e-8", gtol |-> "1e-10"]

minimisation_options ==
    [disp |-> 0, maxiter |-> 15000, maxfun |-> 15000,
     ftol |-> "2.22e-8", gtol |-> "1e-10"]

op_method == "L-BFGS-B"

\* d_pq is fixed at 2.9 (in tenths)
d_pq == 29

NoOpt ==
    [status |-> "idle", x |-> 0, trial |-> 0, ls |-> 0, nfev |-> 0, nit |-> 0,
     evals |-> {}]

\* the start point is projected onto the box
Project(x0, lb, ub) == Max(lb, Min(x0, ub))

\* The call of minimize: with lb > ub the routine either raises ValueError or
\* returns at once with x0 and an error status, depending on the scipy
\* release; otherwise the run starts at the projected x0.
MinimizeStart(x0, lb, ub) ==
    IF lb > ub
    THEN { [NoOpt EXCEPT !.status = "raise"],
           [NoOpt EXCEPT !.status = "infeasible", !.x = x0, !.trial = x0] }
    ELSE { [NoOpt EXCEPT !.status = "running",
                         !.x = Project(x0, lb, ub), !.trial = Project(x0, lb, ub)] }

\* The second point of the forward-difference gradient at t: t + eps, which
\* older scipy releases do not clip to the box; newer ones step inside it.
FDProbes(t, lb, ub) ==
    {t + 1} \cup (IF t + 1 > ub THEN {Max(lb, t - 1)} ELSE {})

\* The part of a run that is explored: its first evaluations and the ones
\* next to the evaluation cap
Explored(nfev) ==
    nfev < MaxEvals \/ nfev >= minimisation_options.maxfun - BudgetWindow

\* After an iteration (task NEW_X) the iteration and evaluation limits are
\* tested, in this order
StatusAfterIteration(nit, nfev) ==
    IF nit >= minimisation_options.maxiter THEN "maxiter"
    ELSE IF nfev > minimisation_options.maxfun THEN "maxfun"
    ELSE "running"

Stopped(o) == o.status \in {"converged", "maxiter", "maxfun", "abnormal", "infeasible"}

-----------------------------------------------------------------------------
(* OptimUI.on_click_refine (lines 213-351) *)

OptInput(check, lb, ub) == [opt_check |-> check, lb_input |-> lb, ub_input |-> ub]

OptInputs ==
    { OptInput(FALSE, Blank, Blank), OptInput(TRUE, Blank, Num(1)),
      OptInput(TRUE, Num(1), Blank) }
    \cup { OptInput(TRUE, lb, ub) : lb \in NumTexts(1, MaxBound),
                                    ub \in NumTexts(1, MaxBound) }

RefineInput(mod, table, method, density, rmin, niter, o) ==
    [mod_func |-> mod.mod_func, window_start_input |-> mod.window_start_input,
     table |-> table, method |-> method, density_input |-> density,
     rmin_input |-> rmin, niter_input |-> niter, opt |-> o]

\* What the user has entered when Refine is clicked.  A field the handler
\* does not get to read is left at one representative value.
RefineInputs ==
    \* Cosine-window without a window start
    { RefineInput([mod_func |-> "Cosine-window", window_start_input |-> Blank],
                  FilledTable, "ashcroft-langreth", Num(1), Num(1), Num(1),
                  OptInput(FALSE, Blank, Blank)) }
    \* no composition entered
    \cup { RefineInput(mod, <<>>, "ashcroft-langreth", Num(1), Num(1), Num(1),
                       OptInput(FALSE, Blank, Blank)) : mod \in ModInputs }
    \* a density, r_min or iteration count that is not a number
    \cup { RefineInput(mod, FilledTable, "ashcroft-langreth", t[1], t[2], t[3],
                       OptInput(FALSE, Blank, Blank)) :
              mod \in ModInputs,
              t \in { <<Blank, Num(1), Num(1)>>, <<Num(1), Blank, Num(1)>>,
                      <<Num(1), Num(1), Blank>> } }
    \* everything is readable
    \cup { RefineInput(mod, FilledTable, method, density, Num(1), niter, o) :
              mod \in ModInputs, method \in Methods,
              density \in NumTexts(0, MaxRho), niter \in NumTexts(0, MaxNIter),
              o \in OptInputs }

\* a handler that refines whatever data['int_func'] holds
NoIntFuncIgnored(d) == FALSE

\* Lines 220-222: no refinement without an interference function
NoIntFunc(d) == Size(d.int_func) = 0

\* a handler that deletes the previous chi-squared only
DeletePreviousChiSqOnly(d) == [d EXCEPT !.chi_sq = <<>>]

\* Lines 215-219: del data['chi_sq'], then del data['refined_rho'], inside
\* one try block: a missing 'chi_sq' raises KeyError before the second del
DeletePrevious(d) ==
    [d EXCEPT !.chi_sq = <<>>,
              !.refined_rho = IF d.chi_sq # <<>> THEN <<>> ELSE @]

\* Lines 213-259: everything up to the call of minimize or, without density
\* refinement, up to the final refinement
RefineEntry(d, in) ==
    LET d0 == DeletePrevious(d)
        d1 == [d0 EXCEPT !.mod_func = in.mod_func]
        d2 == IF in.mod_func = "Cosine-window"
              THEN [d1 EXCEPT !.window_start = in.window_start_input]
              ELSE d1
        comp == get_composition_dict(in.table)
        fr == [comp |-> comp, method |-> in.method,
               rho_0 |-> in.density_input[1], r_min |-> in.rmin_input[1],
               n_iter |-> in.niter_input[1], opt_check |-> in.opt.opt_check,
               lb |-> in.opt.lb_input, ub |-> in.opt.ub_input]
        Out(dd, how) == [d |-> dd, how |-> how, frame |-> <<>>]
    IN  IF NoIntFunc(d) THEN Out(d0, "no int_func")
        ELSE IF WindowStartMissing(in.mod_func, in.window_start_input)
             THEN Out(d1, "no window start")
        ELSE IF CompositionRaises(in.table) THEN Out(d2, "raise")
        ELSE IF DOMAIN comp = {} THEN Out(d2, "no composition")
        ELSE IF ~IsNumber(in.density_input) \/ ~IsNumber(in.rmin_input)
                \/ ~IsNumber(in.niter_input) THEN Out(d2, "raise")
        ELSE IF in.opt.opt_check
                /\ (~IsNumber(in.opt.lb_input) \/ ~IsNumber(in.opt.ub_input))
             THEN Out(d2, "no bounds")
        ELSE [d |-> d2, how |-> IF in.opt.opt_check THEN "minimize" ELSE "refine",
              frame |-> <<fr>>]

\* a bounds pair whose lower end is not the typed one
OptBoundsNoLower(fr) == <<0, fr.ub[1]>>

\* _bounds of line 256: the (lower, upper) pair handed to minimize
OptBounds(fr) == <<fr.lb[1], fr.ub[1]>>

\* _args of line 257: what minimize passes to the objective after the density
ObjectiveArgs(d, fr) ==
    EggertArgs(d.cor_x_cut, d.cor_y_cut, fr.comp, fr.r_min, d_pq, fr.n_iter,
               fr.method, d.mod_func, d.window_start, 1)

\* _args of line 276: the final refinement
FinalArgs(d, fr) ==
    EggertArgs(d.cor_x_cut, d.int_func, fr.comp, fr.r_min, d_pq, fr.n_iter,
               fr.method, d.mod_func, d.window_start, 0)

\* a handler that takes the result over only from a converged run
TakeResultIfSuccess(d, o) ==
    IF o.status = "converged" THEN [d EXCEPT !.refined_rho = <<o.x>>] ELSE d

\* Lines 266-272: the optimizer's result is taken over
TakeResult(d, o) == [d EXCEPT !.refined_rho = <<o.x>>]

\* Lines 276-290: the final refinement at rho_temp
RefineTail(d, fr, rho_temp) ==
    LET res == calc_impr_interference_func(rho_temp, FinalArgs(d, fr))
        F == calc_F_r(d.iq_x, res.iq, rho_temp, d.mod_func, d.window_start)
    IN  [d EXCEPT !.impr_int_func = res.iq, !.chi_sq = <<res.chi_sq>>,
                  !.impr_fr_x = FrX(F), !.impr_fr_y = FrY(F),
                  !.impr_iq_x = d.iq_x]

TailCalls(d, fr, rho_temp) ==
    { EggertCall(rho_temp, FinalArgs(d, fr)),
      Call("calc_F_r", Num(rho_temp), <<>>,
           calc_impr_interference_func(rho_temp, FinalArgs(d, fr)).iq,
           d.mod_func, d.window_start, NoRest) }

\* Lines 292-346: the block appended to refinement.log (the fields the
\* properties below read), written after the final refinement
LogBlock(d, w, fr, o) ==
    [smooth |-> IF w.smooth_data_check THEN "Y" ELSE "N",
     density_refined |-> IF fr.opt_check THEN "Y" ELSE "N",
     opt_result |-> IF fr.opt_check THEN o.status ELSE "-",
     lb |-> IF fr.opt_check THEN fr.lb ELSE Blank,
     ub |-> IF fr.opt_check THEN fr.ub ELSE Blank,
     refined_rho |-> d.refined_rho,
     chi_sq |-> d.chi_sq,
     comp |-> fr.comp, method |-> fr.method,
     mod_func |-> d.mod_func, window_start |-> d.window_start,
     rho_0 |-> fr.rho_0, r_min |-> fr.r_min,
     n_iter |-> fr.n_iter]

\* the file written anew (append_log_mode = 0)
WriteLogOverwrite(file, block) == <<block>>

\* Lines 335-346: append_log_mode = 1, the file is opened with 'ab' and the
\* block is written at its end
WriteLog(file, block) == Append(file, block)

-----------------------------------------------------------------------------
(* The state machine *)

Datasets == { [x |-> <<1, 2, 3>>, y |-> <<5, 7, 6>>], [x |-> <<2>>, y |-> <<4>>] }
QTexts == {Blank, Partial, Num(1), Num(3)}
WindowTexts == {Blank, Num(3), Num(5)}
PolyTexts == {Blank, Num(1), Num(3)}

Did(h, how) == [h |-> h, how |-> how]

\* refinement.log is opened in append mode: it may hold blocks of earlier
\* sessions
EarlierBlock == [f |-> "earlier session"]

\* The session is explored until the log holds MaxLog blocks
SessionOpen == pc = "idle" /\ Len(log) < MaxLog

Init ==
    /\ data = InitData
    /\ widgets = InitWidgets
    /\ loaded = FALSE
    /\ log = <<EarlierBlock>>
    /\ emitted = 0
    /\ calls = {}
    /\ last = Did("init", "-")
    /\ pc = "idle"
    /\ frame = <<>>
    /\ opt = NoOpt

\* The main window loads a data file into cor_x / cor_y, sets base_filename
\* and plots it
LoadData ==
    /\ SessionOpen
    /\ \E ds \in Datasets :
          /\ data' = plot_data([data EXCEPT !.cor_x = ds.x, !.cor_y = ds.y], widgets)
          /\ calls' = PlotCalls([data EXCEPT !.cor_x = ds.x, !.cor_y = ds.y], widgets)
    /\ loaded' = TRUE
    /\ last' = Did("load", "done")
    /\ UNCHANGED <<widgets, log, emitted, pc, frame, opt>>

\* qmax_check.stateChanged / qmax_input.textChanged -> plot_data; the input
\* is enabled only while its box is checked
QmaxChanged ==
    /\ SessionOpen
    /\ \/ widgets' = [widgets EXCEPT !.qmax_check = ~@]
       \/ /\ widgets.qmax_check
          /\ \E t \in QTexts \ {widgets.qmax_input} :
                widgets' = [widgets EXCEPT !.qmax_input = t]
    /\ data' = plot_data(data, widgets')
    /\ calls' = PlotCalls(data, widgets')
    /\ last' = Did("plot_data", "done")
    /\ UNCHANGED <<loaded, log, emitted, pc, frame, opt>>

\* qmin_check.stateChanged / qmin_input.textChanged -> plot_data
QminChanged ==
    /\ SessionOpen
    /\ \/ widgets' = [widgets EXCEPT !.qmin_check = ~@]
       \/ /\ widgets.qmin_check
          /\ \E t \in QTexts \ {widgets.qmin_input} :
                widgets' = [widgets EXCEPT !.qmin_input = t]
    /\ data' = plot_data(data, widgets')
    /\ calls' = PlotCalls(data, widgets')
    /\ last' = Did("plot_data", "done")
    /\ UNCHANGED <<loaded, log, emitted, pc, frame, opt>>

\* smooth_data_check.toggled, window_length_input.textChanged and
\* poly_order_input.textChanged -> smooth_check_toggled; the two inputs are
\* enabled only while the box is checked.  They are created and connected
\* but not placed in the layout (lines 712-715): their text changes through
\* setText.
SmoothChanged ==
    /\ SessionOpen
    /\ Len(data.cor_y_cut.sg) < MaxSmooth
    /\ \/ widgets' = [widgets EXCEPT !.smooth_data_check = ~@]
       \/ /\ widgets.smooth_data_check
          /\ \E t \in WindowTexts \ {widgets.window_length_input} :
                widgets' = [widgets EXCEPT !.window_length_input = t]
       \/ /\ widgets.smooth_data_check
          /\ \E t \in PolyTexts \ {widgets.poly_order_input} :
                widgets' = [widgets EXCEPT !.poly_order_input = t]
    /\ data' = smooth_check_toggled(data, widgets')
    /\ calls' = IF widgets'.smooth_data_check THEN SmoothCalls(data, widgets')
                ELSE PlotCalls(data, widgets')
    /\ last' = Did("smooth_check_toggled", "done")
    /\ UNCHANGED <<loaded, log, emitted, pc, frame, opt>>

\* calc_sq_btn.clicked
OnClickCalcSq ==
    /\ SessionOpen
    /\ \E in \in CalcInputs :
          LET r == on_click_calc_sq(data, in)
          IN  /\ data' = r.d
              /\ calls' = r.calls
              /\ last' = Did("calc_sq", r.how)
    /\ UNCHANGED <<widgets, loaded, log, emitted, pc, frame, opt>>

\* opt_button.clicked: the handler up to its return, or up to the call of
\* minimize, which then runs (OptEvaluate .. RefineFinish) before any other
\* event is served
OnClickRefine ==
    /\ SessionOpen
    /\ \E in \in RefineInputs :
          /\ LET e == RefineEntry(data, in)
                 fr == e.frame[1]
             IN  CASE e.how = "refine" ->
                        /\ data' = RefineTail(e.d, fr, fr.rho_0)
                        /\ calls' = TailCalls(e.d, fr, fr.rho_0)
                        /\ log' = WriteLog(log, LogBlock(RefineTail(e.d, fr, fr.rho_0),
                                                     widgets, fr, NoOpt))
                        /\ emitted' = emitted + 1
                        /\ last' = Did("refine", "done")
                        /\ UNCHANGED <<pc, frame, opt>>
                  [] e.how = "minimize" ->
                        \E o \in MinimizeStart(fr.rho_0, OptBounds(fr)[1], OptBounds(fr)[2]) :
                           IF o.status = "raise"
                           THEN /\ data' = e.d
                                /\ calls' = {}
                                /\ last' = Did("refine", "raise")
                                /\ UNCHANGED <<log, emitted, pc, frame, opt>>
                           ELSE /\ data' = e.d
                                /\ calls' = {}
                                /\ last' = Did("refine", "minimize")
                                /\ pc' = "minimize"
                                /\ frame' = e.frame
                                /\ opt' = o
                                /\ UNCHANGED <<log, emitted>>
                  [] OTHER ->
                        /\ data' = e.d
                        /\ calls' = {}
                        /\ last' = Did("refine", e.how)
                        /\ UNCHANGED <<log, emitted, pc, frame, opt>>
    /\ UNCHANGED <<widgets, loaded>>

\* The routine asks for f and g (task FG): the objective is called at the
\* point t and at the finite-difference point next to it.  The first
\* evaluation is at the start point; later ones are line-search points
\* inside the box.
OptEvaluate ==
    /\ pc = "minimize"
    /\ opt.status = "running"
    /\ opt.ls < maxls
    /\ Explored(opt.nfev)
    /\ LET fr == frame[1]
           lb == OptBounds(fr)[1]
           ub == OptBounds(fr)[2]
       IN  \E t \in lb..ub : \E p \in FDProbes(t, lb, ub) :
              /\ opt.nfev = 0 => t = opt.x
              /\ opt' = [opt EXCEPT !.trial = t,
                                    !.ls = IF opt.nfev = 0 THEN 0 ELSE @ + 1,
                                    !.nfev = @ + 2,
                                    !.evals = @ \cup {t, p}]
              /\ calls' = calls \cup { EggertCall(t, ObjectiveArgs(data, fr)),
                                       EggertCall(p, ObjectiveArgs(data, fr)) }
    /\ UNCHANGED <<data, widgets, loaded, log, emitted, last, pc, frame>>

\* The line search ends: a new iterate (task NEW_X), after which the limits
\* are tested
OptNewX ==
    /\ pc = "minimize"
    /\ opt.status = "running"
    /\ opt.ls >= 1
    /\ opt' = [opt EXCEPT !.x = opt.trial, !.nit = @ + 1, !.ls = 0,
                          !.status = StatusAfterIteration(opt.nit + 1, opt.nfev)]
    /\ UNCHANGED <<data, widgets, loaded, log, emitted, calls, last, pc, frame>>

\* A convergence test (projected gradient or relative reduction) succeeds at
\* the current iterate
OptConverge ==
    /\ pc = "minimize"
    /\ opt.status = "running"
    /\ opt.nfev > 0 /\ opt.ls = 0
    /\ opt' = [opt EXCEPT !.status = "converged"]
    /\ UNCHANGED <<data, widgets, loaded, log, emitted, calls, last, pc, frame>>

\* The line search fails after maxls evaluations: abnormal termination at
\* the current iterate
OptAbnormal ==
    /\ pc = "minimize"
    /\ opt.status = "running"
    /\ opt.ls = maxls
    /\ opt' = [opt EXCEPT !.status = "abnormal", !.ls = 0]
    /\ UNCHANGED <<data, widgets, loaded, log, emitted, calls, last, pc, frame>>

\* minimize has returned: lines 266-351
RefineFinish ==
    /\ pc = "minimize"
    /\ Stopped(opt)
    /\ LET fr == frame[1]
           d1 == TakeResult(data, opt)
       IN  /\ data' = RefineTail(d1, fr, opt.x)
           /\ calls' = calls
                       \cup { Call("conv_density", Num(opt.x), <<fr.comp>>,
                                   Grid(<<>>), "-", None, NoRest) }
                       \cup TailCalls(d1, fr, opt.x)
           /\ log' = WriteLog(log, LogBlock(RefineTail(d1, fr, opt.x), widgets, fr, opt))
    /\ emitted' = emitted + 1
    /\ last' = Did("refine", "done")
    /\ pc' = "idle"
    /\ frame' = <<>>
    /\ opt' = NoOpt
    /\ UNCHANGED <<widgets, loaded>>

Next ==
    \/ LoadData
    \/ QmaxChanged
    \/ QminChanged
    \/ SmoothChanged
    \/ OnClickCalcSq
    \/ OnClickRefine
    \/ OptEvaluate
    \/ OptNewX
    \/ OptConverge
    \/ OptAbnormal
    \/ RefineFinish

Spec == Init /\ [][Next]_vars

\* The refinement pipeline alone: a session in which the cutoff and smoothing
\* widgets are left as constructed
NextPipeline ==
    \/ LoadData
    \/ OnClickCalcSq
    \/ OnClickRefine
    \/ OptEvaluate
    \/ OptNewX
    \/ OptConverge
    \/ OptAbnormal
    \/ RefineFinish

SpecPipeline == Init /\ [][NextPipeline]_vars

-----------------------------------------------------------------------------
(* A density refinement close to its evaluation cap.  The states between   *)
(* the first MaxEvals evaluations and the last BudgetWindow ones are not    *)
(* explored one by one: the run is entered with its counters anywhere in     *)
(* the window below the cap, in a session that loaded a file, clicked        *)
(* Calc S(Q) and clicked Refine with density refinement.                     *)

LoadedData ==
    plot_data([InitData EXCEPT !.cor_x = <<1, 2, 3>>, !.cor_y = <<5, 7, 6>>],
              InitWidgets)

BudgetCalcInput ==
    CalcInput(FilledTable, [mod_func |-> "None", window_start_input |-> Blank],
              "ashcroft-langreth", Num(1))

BudgetRefineInputs ==
    { RefineInput([mod_func |-> "None", window_start_input |-> Blank], FilledTable,
                  "ashcroft-langreth", density, Num(1), niter, OptInput(TRUE, lb, ub)) :
         density \in NumTexts(0, MaxRho), niter \in NumTexts(0, MaxNIter),
         lb \in NumTexts(1, MaxBound), ub \in NumTexts(1, MaxBound) }

InitBudget ==
    /\ widgets = InitWidgets
    /\ loaded = TRUE
    /\ log = <<>>
    /\ emitted = 0
    /\ calls = {}
    /\ last = Did("refine", "minimize")
    /\ pc = "minimize"
    /\ \E in \in BudgetRefineInputs :
          LET e == RefineEntry(on_click_calc_sq(LoadedData, BudgetCalcInput).d, in)
              lb == in.opt.lb_input[1]
              ub == in.opt.ub_input[1]
          IN  /\ lb <= ub
              /\ data = e.d
              /\ frame = e.frame
              /\ \E n \in 0..BudgetWindow, x \in lb..ub, k \in 1..maxls :
                    LET nfev == minimisation_options.maxfun - n
                    IN  /\ nfev % 2 = 0
                        /\ opt = [NoOpt EXCEPT !.status = "running", !.x = x,
                                               !.trial = x, !.nfev = nfev,
                                               !.nit = (nfev - 2) \div (2 * k),
                                               !.evals = {x}]

NextBudget ==
    \/ OptEvaluate
    \/ OptNewX
    \/ OptConverge
    \/ OptAbnormal
    \/ RefineFinish

\* minimize and the rest of the handler run to completion: nothing else is
\* scheduled while the handler is on the stack
SpecBudget == InitBudget /\ [][NextBudget]_vars /\ WF_vars(NextBudget)

-----------------------------------------------------------------------------
(* Properties.  calls is the set of core calls the last handler made (for a  *)
(* running density refinement: has made so far).                            *)

\* C1: every invocation of the Eggert refiner performs exactly as many
\* corrections as the iteration count it is given, which is the count typed
\* in niter_input: never fewer (no convergence exit), never more.
C1_ExactlyNIterCorrections ==
    \A c \in calls :
       c.fn = "calc_impr_interference_func" =>
          /\ c.rest.iterations = c.rest.args.n_iter
          /\ c.rest.args.n_iter =
                IF pc = "minimize" THEN frame[1].n_iter ELSE log[Len(log)].n_iter

\* a refinement with MaxNIter (at least two) corrections has been made
C1_Witness ==
    /\ last = Did("refine", "done")
    /\ \E c \in calls :
          /\ c.fn = "calc_impr_interference_func"
          /\ c.rest.args.n_iter = MaxNIter
          /\ c.rest.iterations = MaxNIter
          /\ data.impr_int_func.iters = MaxNIter

C4_SameInputs ==
    \A c1, c2 \in calls :
       ( /\ c1.fn = "calc_impr_interference_func" /\ c1.rest.args.flag = 1
         /\ c2.fn = "calc_impr_interference_func" /\ c2.rest.args.flag = 0 )
       => [c1.rest.args EXCEPT !.flag = 0] = c2.rest.args

\* C5 as stated: with lower < upper and the guess inside, the refined density
\* and every density the objective is evaluated at lie in [lower, upper].
C5_AllEvaluationsInBounds ==
    LET running == pc = "minimize"
        done == /\ pc = "idle" /\ last = Did("refine", "done")
                /\ log[Len(log)].density_refined = "Y"
        lb == IF running THEN frame[1].lb[1] ELSE log[Len(log)].lb[1]
        ub == IF running THEN frame[1].ub[1] ELSE log[Len(log)].ub[1]
        rho_0 == IF running THEN frame[1].rho_0 ELSE log[Len(log)].rho_0
    IN  ((running \/ done) /\ lb < ub /\ lb <= rho_0 /\ rho_0 <= ub) =>
           /\ done => (data.refined_rho[1] >= lb /\ data.refined_rho[1] <= ub)
           /\ \A c \in calls :
                 (c.fn = "calc_impr_interference_func" /\ c.rest.args.flag = 1)
                 => (c.rho[1] >= lb /\ c.rho[1] <= ub)

\* C5, amended: with lower < upper and the guess inside, the refined density
\* lies in [lower, upper], and every density the objective is evaluated at
\* lies in [lower, upper + one finite-difference step].
C5_RefinedRhoInBounds ==
    LET running == pc = "minimize"
        done == /\ pc = "idle" /\ last = Did("refine", "done")
                /\ log[Len(log)].density_refined = "Y"
        lb == IF running THEN frame[1].lb[1] ELSE log[Len(log)].lb[1]
        ub == IF running THEN frame[1].ub[1] ELSE log[Len(log)].ub[1]
        rho_0 == IF running THEN frame[1].rho_0 ELSE log[Len(log)].rho_0
    IN  ((running \/ done) /\ lb < ub /\ lb <= rho_0 /\ rho_0 <= ub) =>
           /\ running => (opt.x >= lb /\ opt.x <= ub)
           /\ done => (data.refined_rho[1] >= lb /\ data.refined_rho[1] <= ub)
           /\ \A c \in calls :
                 (c.fn = "calc_impr_interference_func" /\ c.rest.args.flag = 1)
                 => (c.rho[1] >= lb /\ c.rho[1] <= ub + 1)

\* a density refinement with lower < upper and the guess inside has finished
\* at the upper bound, after an evaluation one step above it
C5_Witness ==
    /\ pc = "idle" /\ last = Did("refine", "done")
    /\ log[Len(log)].density_refined = "Y"
    /\ log[Len(log)].lb[1] < log[Len(log)].ub[1]
    /\ log[Len(log)].rho_0 >= log[Len(log)].lb[1]
    /\ log[Len(log)].rho_0 <= log[Len(log)].ub[1]
    /\ data.refined_rho = log[Len(log)].ub
    /\ \E c \in calls :
          /\ c.fn = "calc_impr_interference_func" /\ c.rest.args.flag = 1
          /\ c.rho[1] = log[Len(log)].ub[1] + 1

\* C6: the optimizer is never started with lower >= upper or with the
\* density guess outside [lower, upper].
C6_OptimizerInputsValidated ==
    pc = "minimize" =>
       /\ frame[1].lb[1] < frame[1].ub[1]
       /\ frame[1].lb[1] <= frame[1].rho_0
       /\ frame[1].rho_0 <= frame[1].ub[1]

\* C7: when the optimizer stops because its evaluation budget is exhausted,
\* the handler still completes: the optimizer's current (best) density becomes
\* refined_rho, the final refinement runs at it, one block recording the
\* optimizer's status is appended to the log, and results_changed is emitted.
C7_BudgetExhaustedCompletes ==
    /\ [][(pc = "minimize" /\ opt.status = "maxfun") =>
             /\ pc' = "idle"
             /\ last' = Did("refine", "done")
             /\ data'.refined_rho = <<opt.x>>
             /\ data'.impr_int_func =
                   calc_impr_interference_func(opt.x, FinalArgs(data, frame[1])).iq
             /\ data'.chi_sq =
                   <<calc_impr_interference_func(opt.x, FinalArgs(data, frame[1])).chi_sq>>
             /\ Len(log') = Len(log) + 1
             /\ log'[Len(log')].opt_result = "maxfun"
             /\ log'[Len(log')].refined_rho = <<opt.x>>
             /\ emitted' = emitted + 1]_vars
    /\ (pc = "minimize" /\ opt.status = "maxfun")
          ~> (pc = "idle" /\ last = Did("refine", "done"))

\* a refinement whose optimizer ran out of evaluations has completed
C7_Witness ==
    /\ pc = "idle" /\ last = Did("refine", "done")
    /\ log[Len(log)].opt_result = "maxfun"
    /\ data.refined_rho = log[Len(log)].refined_rho
    /\ data.refined_rho # <<>>
    /\ emitted = 1

\* C8 as stated: the optimizer returns after at most 15000 iterations and at
\* most 15000 objective evaluations.
C8_AtMost15000Evaluations ==
    pc = "minimize" => (opt.nit <= 15000 /\ opt.nfev <= 15000)

\* C8, amended: a density optimization always returns, after at most 15000
\* iterations; the evaluation cap is tested once per iteration, so the
\* objective is evaluated at most 15000 times plus the evaluations of one
\* more iteration (two per line-search step, at most maxls steps); the
\* evaluation count only grows while the optimizer runs.
C8_TerminatesNearBudget ==
    /\ <>(pc = "idle")
    /\ [](opt.nit <= 15000 /\ opt.nfev <= 15000 + 2 * maxls)
    /\ [][pc' = "minimize" => opt'.nfev >= opt.nfev]_vars

\* the optimizer has stopped on its evaluation cap
C8_Witness ==
    pc = "minimize" /\ opt.status = "maxfun" /\ opt.nfev > 15000

\* C9: the structure-factor calculator, the real-space transformer and the
\* Eggert refiner are never called with an empty composition or with a
\* density <= 0.
C9_InvalidInputRejected ==
    \A c \in calls :
       c.fn \in {"calc_structure_factor", "calc_F_r", "calc_impr_interference_func"}
       => /\ c.comp # <<EmptyComposition>>
          /\ c.rho # <<>> => c.rho[1] > 0

\* C10: with 'Cosine-window' selected and no numeric window start, Calc S(Q)
\* and Refine return before any core call; no core function is called with
\* mod_func = 'Cosine-window' and a window start that is not a number.
C10_CosineNeedsWindowStart ==
    /\ \A c \in calls : c.mod_func = "Cosine-window" => IsNumber(c.window_start)
    /\ last.how = "no window start" => calls = {}

\* both handlers have met the case: one rejected it, one ran with a window start
C10_Witness ==
    \/ /\ last = Did("refine", "no window start")
       /\ data.mod_func = "Cosine-window"
       /\ calls = {}
    \/ /\ last = Did("calc_sq", "no window start")
       /\ data.mod_func = "Cosine-window"
       /\ calls = {}

\* C11: a refinement on a Q grid of fewer than 2 points (or with r_min
\* outside the r grid) is detected: it never stores a chi-squared or a
\* refined curve.  Stated for the Q grid, whose length the handler can see.
C11_DegenerateRefinementRejected ==
    (data.chi_sq # <<>> \/ Size(data.impr_int_func) > 0) => Len(data.cor_x_cut) >= 2

\* C12: the S_inf subtracted in Calc S(Q) is computed with the method S(Q)
\* was computed with, so that the results view's int_func + S_inf(method)
\* gives back the S(Q) of the structure-factor calculator.  Stated for
\* compositions of two or more elements, where the two conventions differ.
C12_SInfOfSameMethod ==
    \A c \in calls :
       ( /\ last = Did("calc_sq", "done")
         /\ c.fn = "calc_structure_factor"
         /\ Cardinality(DOMAIN c.comp[1]) >= 2 )
       => /\ \A s \in calls : s.fn = "calc_S_inf" => s.rest.method = c.rest.method
          /\ ResultsSq(data.int_func, c.comp[1], data.iq_x, c.rest.method) = data.sq_y

-----------------------------------------------------------------------------
(* The modification-function provider on its own: get_mod_func applied to   *)
(* Q sequences, as a script calling the core would.                         *)

MaxQ == 4
MaxQLen == 3

\* strictly increasing Q sequences of up to MaxQLen points in 0..MaxQ
QSeqs ==
    {q \in UNION {[1..n -> 0..MaxQ] : n \in 0..MaxQLen} :
        \A i \in 1..(Len(q) - 1) : q[i] < q[i + 1]}

ModCalls ==
    [mod_func : {"None", "Lorch"}, window_start : {None}]
    \cup [mod_func : {"Cosine-window"}, window_start : NumTexts(0, MaxQ + 1)]

ModCall(q, m) ==
    [fn |-> "get_mod_func", q |-> q, mod_func |-> m.mod_func,
     window_start |-> m.window_start,
     result |-> ModificationValues(q, m.mod_func, m.window_start)]

GetModFunc ==
    /\ \E q \in QSeqs, m \in ModCalls :
          /\ calls' = {ModCall(q, m)}
          /\ last' = Did("get_mod_func", m.mod_func)
    /\ UNCHANGED <<data, widgets, loaded, log, emitted, pc, frame, opt>>

NextModFunc ==
    \/ GetModFunc

SpecModFunc == Init /\ [][NextModFunc]_vars

\* C13: in mode 'None' the modification function is a sequence of the length
\* of Q whose every element is 1, so a damped value equals the value.
C13_NoneIsAllOnes ==
    \A c \in calls :
       (c.fn = "get_mod_func" /\ c.mod_func = "None") =>
          /\ Len(c.result) = Len(c.q)
          /\ \A i \in 1..Len(c.q) :
                /\ c.result[i] = Unit
                /\ \A v \in -2..2 : (v * c.result[i]) \div Unit = v

\* mode 'None' has been applied to a Q sequence of MaxQLen points
C13_Witness ==
    \E c \in calls :
       /\ c.fn = "get_mod_func" /\ c.mod_func = "None"
       /\ Len(c.q) = MaxQLen /\ Len(c.result) = MaxQLen

\* C14: the cosine window is exactly 1 at every Q < window_start, is
\* non-increasing over the points with Q >= window_start, and has all its
\* values in [0, 1].
C14_CosineWindowShape ==
    \A c \in calls :
       (c.fn = "get_mod_func" /\ c.mod_func = "Cosine-window") =>
          LET ws == c.window_start[1]
          IN  /\ Len(c.result) = Len(c.q)
              /\ \A i \in 1..Len(c.q) :
                    /\ c.result[i] >= 0 /\ c.result[i] <= Unit
                    /\ c.q[i] < ws => c.result[i] = Unit
              /\ \A i, j \in 1..Len(c.q) :
                    (ws <= c.q[i] /\ c.q[i] <= c.q[j]) => c.result[i] >= c.result[j]

\* a window that starts inside the Q range: one point before it, a point
\* strictly inside the taper, and the last point damped to 0
C14_Witness ==
    \E c \in calls :
       /\ c.fn = "get_mod_func" /\ c.mod_func = "Cosine-window"
       /\ Len(c.q) = 3
       /\ c.q[1] < c.window_start[1]
       /\ c.result[1] = Unit
       /\ c.result[2] > 0 /\ c.result[2] < Unit
       /\ c.result[3] = 0

-----------------------------------------------------------------------------
(* Repeated refinements of one loaded curve.  The session is entered after *)
(* its first refinement (a file was loaded, Calc S(Q) and Refine S(Q) were *)
(* clicked, the log was empty before); from there Calc S(Q) and Refine     *)
(* S(Q) are clicked in any order with any inputs, the cut curve staying    *)
(* the same.                                                               *)

FirstRefineInputs ==
    { RefineInput([mod_func |-> "None", window_start_input |-> Blank], FilledTable,
                  "ashcroft-langreth", Num(1), Num(1), niter,
                  OptInput(FALSE, Blank, Blank)) : niter \in NumTexts(0, MaxNIter) }

InitRepeat ==
    /\ widgets = InitWidgets
    /\ loaded = TRUE
    /\ emitted = 1
    /\ last = Did("refine", "done")
    /\ pc = "idle"
    /\ frame = <<>>
    /\ opt = NoOpt
    /\ \E in \in FirstRefineInputs :
          LET e == RefineEntry(on_click_calc_sq(LoadedData, BudgetCalcInput).d, in)
              fr == e.frame[1]
              d == RefineTail(e.d, fr, fr.rho_0)
          IN  /\ data = d
              /\ calls = TailCalls(e.d, fr, fr.rho_0)
              /\ log = WriteLog(<<>>, LogBlock(d, InitWidgets, fr, NoOpt))

NextRepeat ==
    \/ OnClickCalcSq
    \/ OnClickRefine

SpecRepeat == InitRepeat /\ [][NextRepeat]_vars

\* C15: two refinements of the same cut curve with identical inputs
\* (composition, density, r_min, n_iter, method, modification function and
\* window start) give the identical chi-squared, whatever was calculated in
\* between.  Stated for refinements without density optimization.
C15_SameInputsSameResult ==
    \A i, j \in 1..Len(log) :
       ( /\ log[i].density_refined = "N" /\ log[j].density_refined = "N"
         /\ log[i].comp = log[j].comp
         /\ log[i].rho_0 = log[j].rho_0
         /\ log[i].r_min = log[j].r_min
         /\ log[i].n_iter = log[j].n_iter
         /\ log[i].method = log[j].method
         /\ log[i].mod_func = log[j].mod_func
         /\ log[i].window_start = log[j].window_start )
       => log[i].chi_sq = log[j].chi_sq

-----------------------------------------------------------------------------
(* CompositionGroupBox.get_composition_dict on its own, for any contents   *)
(* of the composition table.                                               *)

MaxRows == 3
MaxN == 2

\* tables of up to MaxRows rows <<Z, charge, n>> with positive n
TableContents ==
    UNION {[1..k -> {8, 31, 33} \X {0} \X (1..MaxN)] : k \in 0..MaxRows}

\* one call per run of the script
GetCompositionDict ==
    /\ last.h = "init"
    /\ \E rows \in TableContents :
          /\ ~CompositionRaises(rows)
          /\ calls' = { [fn |-> "get_composition_dict", rows |-> rows,
                         result |-> get_composition_dict(rows)] }
          /\ last' = Did("get_composition_dict", "done")
    /\ UNCHANGED <<data, widgets, loaded, log, emitted, pc, frame, opt>>

NextComposition ==
    \/ GetCompositionDict

SpecComposition == Init /\ [][NextComposition]_vars

RECURSIVE SumOfNumerators(_, _)
SumOfNumerators(comp, keys) ==
    IF keys = {} THEN 0
    ELSE LET k == CHOOSE z \in keys : TRUE
         IN  comp[k][3][1] + SumOfNumerators(comp, keys \ {k})

\* C16: the proportions n / n_total of every non-empty composition sum to 1:
\* all entries have the same positive n_total and their n sum to it.
C16_ProportionsSumToOne ==
    \A c \in calls :
       (c.fn = "get_composition_dict" /\ DOMAIN c.result # {}) =>
          /\ \A k \in DOMAIN c.result :
                /\ c.result[k][3][2] > 0
                /\ c.result[k][3][2] = SumOfNumerators(c.result, DOMAIN c.result)
          /\ \A k \in DOMAIN c.result : c.result[k][3][1] > 0

\* a table of three rows, two of them naming the same element with
\* different n, gave a composition of two entries
C16_Witness ==
    \E c \in calls :
       /\ c.fn = "get_composition_dict"
       /\ Len(c.rows) = 3
       /\ c.rows[1][1] = c.rows[3][1] /\ c.rows[1][3] # c.rows[3][3]
       /\ Cardinality(DOMAIN c.result) = 2

-----------------------------------------------------------------------------
(* The data options alone: files are loaded and the cutoff and smoothing   *)
(* widgets are changed.                                                     *)

NextCutoff ==
    \/ LoadData
    \/ QmaxChanged
    \/ QminChanged
    \/ SmoothChanged

SpecCutoff == Init /\ [][NextCutoff]_vars

C22_SmoothingValidated ==
    [][ (last'.h = "smooth_check_toggled" /\ widgets'.smooth_data_check) =>
           LET wl == widgets'.window_length_input
               po == widgets'.poly_order_input
               invalid == \/ ~IsNumber(wl) \/ ~IsNumber(po)
                          \/ (IsNumber(wl) /\ IsNumber(po) /\ po[1] >= wl[1])
                          \/ Len(data.cor_y_cut.y) = 0
           IN  IF invalid
               THEN calls' = {} /\ data'.cor_y_cut = data.cor_y_cut
               ELSE /\ \E c \in calls' : c.fn = "smooth_data"
                    /\ data'.cor_y_cut = smooth_data(data.cor_y_cut, wl[1], po[1])
                    /\ Len(data'.cor_y_cut.y) = Len(data.cor_y_cut.y)
      ]_vars

\* C18: refinement.log is append-only with one block per refinement: a step
\* never changes or removes a block that is in the file and adds at most
\* one; a block is added exactly when a refinement completes (its result is
\* stored and results_changed is emitted); a Refine click that is aborted
\* adds nothing.
C18_LogAppendOnly ==
    [][ /\ Len(log') >= Len(log) /\ Len(log') <= Len(log) + 1
        /\ SubSeq(log', 1, Len(log)) = log
        /\ (Len(log') = Len(log) + 1) <=> (emitted' = emitted + 1)
        /\ (Len(log') = Len(log) + 1) =>
              /\ last' = Did("refine", "done")
              /\ pc' = "idle"
              /\ data'.chi_sq # <<>>
              /\ log'[Len(log')].chi_sq = data'.chi_sq
        /\ (pc = "minimize" /\ pc' = "idle") => Len(log') = Len(log) + 1
        /\ (last'.h = "refine" /\ last'.how \notin {"done", "minimize"})
              => log' = log
      ]_vars

\* a refinement with density optimization has completed and its block
\* stands after the block of an earlier session
C18_Witness ==
    /\ last = Did("refine", "done")
    /\ Len(log) = 2
    /\ log[1] = EarlierBlock
    /\ log[2].density_refined = "Y"
    /\ log[2].chi_sq = data.chi_sq

-----------------------------------------------------------------------------
(* Cutoff changes after a refinement: the session is entered with S(Q),    *)
(* F(r) and the refined curves present; the cutoffs are changed and        *)
(* Calc S(Q) is clicked in any order.                                      *)

NextClear ==
    \/ QmaxChanged
    \/ QminChanged
    \/ OnClickCalcSq

SpecClear == InitRepeat /\ [][NextClear]_vars

\* C19: every call of plot_data leaves sq_y, fr_x, fr_y, int_func,
\* impr_int_func, impr_fr_x, impr_fr_y, iq_x and impr_iq_x empty and the raw
\* curve cor_x / cor_y as it was.
C19_PlotDataClearsDerived ==
    [][ last'.h = "plot_data" =>
           /\ Size(data'.sq_y) = 0 /\ Size(data'.fr_x) = 0 /\ Size(data'.fr_y) = 0
           /\ Size(data'.int_func) = 0 /\ Size(data'.impr_int_func) = 0
           /\ Size(data'.impr_fr_x) = 0 /\ Size(data'.impr_fr_y) = 0
           /\ data'.iq_x = <<>> /\ data'.impr_iq_x = <<>>
           /\ data'.cor_x = data.cor_x /\ data'.cor_y = data.cor_y
      ]_vars

\* plot_data has run in a session that had refined curves: they are gone,
\* the raw curve is there
C19_Witness ==
    /\ last = Did("plot_data", "done")
    /\ emitted = 1
    /\ Size(data.impr_int_func) = 0 /\ Size(data.int_func) = 0
    /\ data.cor_x = <<1, 2, 3>> /\ data.cor_y = <<5, 7, 6>>

-----------------------------------------------------------------------------
(* Cutting, calculating and refining one loaded curve: the Q-Max cutoff is *)
(* changed and Calc S(Q) and Refine S(Q) are clicked in any order.  A      *)
(* density refinement is followed up to its call of minimize.              *)

InitLoaded ==
    /\ data = LoadedData
    /\ widgets = InitWidgets
    /\ loaded = TRUE
    /\ log = <<EarlierBlock>>
    /\ emitted = 0
    /\ calls = {}
    /\ last = Did("load", "done")
    /\ pc = "idle"
    /\ frame = <<>>
    /\ opt = NoOpt

NextOrder ==
    \/ QmaxChanged
    \/ OnClickCalcSq
    \/ OnClickRefine

SpecOrder == InitLoaded /\ [][NextOrder]_vars

\* C20: a Refine click calls the refiner or starts the optimizer, writes the
\* log and emits results_changed only if int_func is non-empty, and
\* int_func is non-empty exactly when a Calc S(Q) has succeeded since the
\* last plot_data: plot_data empties it and only a successful Calc S(Q)
\* fills it.  With int_func empty the click changes none of them.
C20_RefineAfterCalc ==
    /\ [][ (last'.h = "refine" /\ Size(data.int_func) = 0) =>
              /\ last'.how = "no int_func"
              /\ calls' = {} /\ log' = log /\ emitted' = emitted
              /\ pc' = "idle" /\ opt' = opt
         ]_vars
    /\ [][ ( \/ calls' # {} /\ last'.h = "refine"
             \/ pc' = "minimize"
             \/ log' # log
             \/ emitted' # emitted ) => Size(data.int_func) > 0
         ]_vars
    /\ [][ /\ last'.h \in {"plot_data", "load"} => Size(data'.int_func) = 0
           /\ (Size(data'.int_func) > 0 /\ Size(data.int_func) = 0)
                 => last' = Did("calc_sq", "done")
           /\ last' = Did("calc_sq", "done") => Size(data'.int_func) > 0
         ]_vars

\* a refinement has run on a curve cut at Q-Max: plot_data had emptied
\* int_func, a Calc S(Q) filled it again, then Refine S(Q) ran
C20_Witness ==
    /\ last = Did("refine", "done")
    /\ widgets.qmax_check /\ widgets.qmax_input = Num(3)
    /\ data.cor_x_cut = <<1, 2>>
    /\ Size(data.int_func) > 0 /\ Size(data.impr_int_func) > 0
    /\ emitted = 1 /\ Len(log) = 2

-----------------------------------------------------------------------------
(* Refining again after a density refinement.  The session is entered      *)
(* after its first refinement, which optimized the density (a file was      *)
(* loaded, Calc S(Q) and Refine S(Q) were clicked, the optimizer converged  *)
(* after its first evaluation): data holds 'chi_sq' and 'refined_rho'.      *)
(* From there the Q-Max cutoff is changed and Calc S(Q) and Refine S(Q)     *)
(* are clicked in any order, a density refinement running to its end.       *)

FirstDensityRefineInputs ==
    { RefineInput([mod_func |-> "None", window_start_input |-> Blank], FilledTable,
                  "ashcroft-langreth", Num(1), Num(1), Num(1),
                  OptInput(TRUE, Num(1), Num(MaxBound))) }

InitRefined ==
    /\ widgets = InitWidgets
    /\ loaded = TRUE
    /\ emitted = 1
    /\ last = Did("refine", "done")
    /\ pc = "idle"
    /\ frame = <<>>
    /\ opt = NoOpt
    /\ \E in \in FirstDensityRefineInputs :
          LET e == RefineEntry(on_click_calc_sq(LoadedData, BudgetCalcInput).d, in)
              fr == e.frame[1]
              o == [NoOpt EXCEPT !.status = "converged", !.x = fr.rho_0,
                                 !.trial = fr.rho_0, !.nfev = 2,
                                 !.evals = {fr.rho_0, fr.rho_0 + 1}]
              d1 == TakeResult(e.d, o)
              d == RefineTail(d1, fr, o.x)
          IN  /\ data = d
              /\ calls = { EggertCall(o.x, ObjectiveArgs(e.d, fr)),
                           EggertCall(o.x + 1, ObjectiveArgs(e.d, fr)),
                           Call("conv_density", Num(o.x), <<fr.comp>>,
                                Grid(<<>>), "-", None, NoRest) }
                         \cup TailCalls(d1, fr, o.x)
              /\ log = WriteLog(<<>>, LogBlock(d, InitWidgets, fr, o))

NextRefined ==
    \/ QmaxChanged
    \/ OnClickCalcSq
    \/ OnClickRefine
    \/ OptEvaluate
    \/ OptNewX
    \/ OptConverge
    \/ OptAbnormal
    \/ RefineFinish

SpecRefined == InitRefined /\ [][NextRefined]_vars

\* C21: every Refine click first deletes the previous chi-squared and refined
\* density: after a click that returns early, and while minimize runs, data
\* holds neither; after a completed refinement chi_sq is the one of this
\* refinement (the one logged) and refined_rho is the optimizer's result of
\* this refinement, or absent when the density was not optimized.
C21_RefineDeletesPrevious ==
    /\ [](pc = "minimize" => (data.chi_sq = <<>> /\ data.refined_rho = <<>>))
    /\ [][ (last'.h = "refine" /\ pc = "idle") =>
              IF last'.how = "done"
              THEN /\ data'.chi_sq = <<EggertChiSq(data'.impr_int_func)>>
                   /\ data'.chi_sq = log'[Len(log')].chi_sq
                   /\ log'[Len(log')].density_refined = "N"
                   /\ data'.refined_rho = <<>>
              ELSE data'.chi_sq = <<>> /\ data'.refined_rho = <<>>
         ]_vars
    /\ [][ (pc = "minimize" /\ pc' = "idle") =>
              /\ data'.chi_sq = <<EggertChiSq(data'.impr_int_func)>>
              /\ data'.chi_sq = log'[Len(log')].chi_sq
              /\ data'.refined_rho = <<opt.x>>
         ]_vars

\* a refinement without density optimization has completed after one that
\* optimized the density: the refined density of the first one is gone
C21_Witness ==
    /\ last = Did("refine", "done")
    /\ Len(log) = 2
    /\ log[1].density_refined = "Y" /\ log[1].refined_rho # <<>>
    /\ log[2].density_refined = "N"
    /\ data.refined_rho = <<>>
    /\ data.chi_sq = log[2].chi_sq

\* C26: refinement results are present or absent together: data holds
\* 'chi_sq' or 'refined_rho' only while the refined curve (impr_int_func,
\* impr_fr_x, impr_fr_y) is present, and impr_int_func is non-empty only
\* while int_func is non-empty.
C26_ResultsTogether ==
    /\ (data.chi_sq # <<>> \/ data.refined_rho # <<>>) =>
          /\ Size(data.impr_int_func) > 0
          /\ Size(data.impr_fr_x) > 0
          /\ Size(data.impr_fr_y) > 0
    /\ Size(data.impr_int_func) > 0 => Size(data.int_func) > 0

-----------------------------------------------------------------------------
(* data_manip.zero_norm on its own, applied to non-empty curves as a script *)
(* calling it would.                                                        *)

MaxY == 2        \* curve values: -MaxY..MaxY
MaxSInf == 1     \* S_inf values: 0..MaxSInf

\* data_manip.zero_norm (lines 31-37): shift = int_func[0]; the curve minus
\* shift is returned.  _S_inf is not read.
zero_norm(int_func, S_inf) ==
    LET shift == int_func[1]
    IN  [i \in 1..Len(int_func) |-> int_func[i] - shift]

\* non-empty curves of up to MaxQLen values
Curves == UNION {[1..n -> (-MaxY)..MaxY] : n \in 1..MaxQLen}

\* one call per run of the script
ZeroNorm ==
    /\ last.h = "init"
    /\ \E c \in Curves, S_inf \in 0..MaxSInf :
          /\ calls' = { [fn |-> "zero_norm", int_func |-> c, S_inf |-> S_inf,
                         result |-> zero_norm(c, S_inf)] }
          /\ last' = Did("zero_norm", "done")
    /\ UNCHANGED <<data, widgets, loaded, log, emitted, pc, frame, opt>>

NextZeroNorm ==
    \/ ZeroNorm

SpecZeroNorm == Init /\ [][NextZeroNorm]_vars

\* C23: zero_norm(int_func, S_inf) shifts the curve by a constant so that the
\* first value of the result is 0 - S_inf, for every non-empty int_func and
\* every S_inf.
C23_FirstValueIsMinusSInf ==
    \A c \in calls :
       c.fn = "zero_norm" =>
          /\ Len(c.result) = Len(c.int_func)
          /\ \A i \in 1..Len(c.result) :
                c.result[i] - c.int_func[i] = c.result[1] - c.int_func[1]
          /\ c.result[1] = 0 - c.S_inf

-----------------------------------------------------------------------------
(* Smoothing and cutting after a refinement of a curve of five points, long *)
(* enough for the constructed smoothing parameters (window 5, order 3).     *)
(* The session is entered after its first refinement (a file was loaded,    *)
(* Calc S(Q) and Refine S(Q) were clicked); from there the smoothing        *)
(* widgets and the Q-Max cutoff are changed and Calc S(Q) is clicked in any *)
(* order.                                                                   *)

LoadedDataLong ==
    plot_data([InitData EXCEPT !.cor_x = <<1, 2, 3, 4, 5>>,
                               !.cor_y = <<5, 7, 6, 4, 3>>],
              InitWidgets)

FirstRefineInputsLong ==
    { RefineInput([mod_func |-> "None", window_start_input |-> Blank], FilledTable,
                  "ashcroft-langreth", Num(1), Num(1), Num(1),
                  OptInput(FALSE, Blank, Blank)) }

InitRepeatLong ==
    /\ widgets = InitWidgets
    /\ loaded = TRUE
    /\ emitted = 1
    /\ last = Did("refine", "done")
    /\ pc = "idle"
    /\ frame = <<>>
    /\ opt = NoOpt
    /\ \E in \in FirstRefineInputsLong :
          LET e == RefineEntry(on_click_calc_sq(LoadedDataLong, BudgetCalcInput).d, in)
              fr == e.frame[1]
              d == RefineTail(e.d, fr, fr.rho_0)
          IN  /\ data = d
              /\ calls = TailCalls(e.d, fr, fr.rho_0)
              /\ log = WriteLog(<<>>, LogBlock(d, InitWidgets, fr, NoOpt))

NextStale ==
    \/ QmaxChanged
    \/ SmoothChanged
    \/ OnClickCalcSq

SpecStale == InitRepeatLong /\ [][NextStale]_vars

\* C24: whenever sq_y, int_func and fr_y are non-empty they were computed
\* from the current cor_x_cut / cor_y_cut, and a refined curve that is
\* present was computed on the current Q grid from the current int_func: no
\* displayed curve is stale with respect to the intensity curve the next
\* refinement will use.
C24_DerivedFromCurrentCut ==
    /\ Size(data.sq_y) > 0 =>
          (data.sq_y.q = data.cor_x_cut /\ data.sq_y.I = data.cor_y_cut)
    /\ Size(data.int_func) > 0 =>
          (data.int_func.a.q = data.cor_x_cut /\ data.int_func.a.I = data.cor_y_cut)
    /\ Size(data.fr_y) > 0 => data.fr_y.of.iq = data.int_func
    /\ Size(data.impr_int_func) > 0 =>
          (data.impr_int_func.q = data.cor_x_cut
           /\ data.impr_int_func.i0.a.I = data.int_func)

====
